---------------------------- MODULE Spec2Model ----------------------------
(***************************************************************************)
(* Model of the Dataverse MCP server's execution-trace store               *)
(* (server/trace_storage.py) and of the agent chat handler that records    *)
(* its work in it (server/routers/agent_chat.py).                          *)
(*                                                                         *)
(* Identifiers are integers: a uuid4() value is the number of the uuid4()  *)
(* call that produced it (so every generated id is fresh); trace ids made  *)
(* from a uuid are the negated number, span ids the number itself, and     *)
(* request ids supplied by a caller are positive.                         *)
(***************************************************************************)
EXTENDS Integers, Sequences, FiniteSets, TLC

\* ------------------------------------------------------------------ bounds
MaxN == 2            \* largest max_traces a store is constructed with
MaxOps == 3          \* direct calls that add a trace or a span to the store
MaxToolCalls == 2    \* tool calls the model requests during one chat request
MaxAuthOps == 4      \* get_access_token calls made and delays passed

\* --------------------------------------------------------- Python values
None == -1           \* Python None, and the absence of a dict key
EmptyId == 0         \* the empty string "" used as an id (falsy)
DefaultLimit == 50   \* list_traces(limit=50)
DefaultMaxTraces == 100  \* _trace_storage = TraceStorage(max_traces=100)
DefaultExpiresIn == 3600  \* token_response.get('expires_in', 3600)
ExpiryBuffer == 300       \* the 5 minute buffer before expiry

VARIABLES
    max_traces,      \* TraceStorage.max_traces
    traces,          \* TraceStorage.traces: OrderedDict as a sequence of traces
    now,             \* int(time.time() * 1000)
    uuids,           \* number of uuid.uuid4() calls made so far
    raised,          \* whether the last store call raised an exception
    missed,          \* history: a call named a trace or span that was not stored
    created,         \* history: the trace ids create_trace has returned
    ops              \* history: the number of traces and spans added directly

storeVars == <<max_traces, traces, now, uuids, raised, missed, created, ops>>

VARIABLES
    pc,              \* where agent_chat stands
    chat_request,    \* AgentChatRequest (its messages)
    agent_trace_id,  \* trace_id and the other locals of agent_chat
    agent_user_message,  \* user_message
    agent_span_id,
    db_token,
    model_messages,
    llm_span_id,
    response,
    tool_index,      \* position of the tool call the for loop is at
    tool_span_id,
    result,          \* what the tool dispatch returned or raised
    tool_results,
    executed_tools,
    final_llm_span_id,
    final_response,
    response_text,   \* direct_response / final_response_text
    exc,             \* the exception being handled, if any
    outcome,         \* what the caller got: a response or an HTTP error
    gateway_log,     \* history: every call_foundation_model call
    tool_log         \* history: every tool call dispatched, in order

agentVars == <<pc, chat_request, agent_trace_id, agent_user_message,
               agent_span_id,
               db_token, model_messages, llm_span_id, response, tool_index,
               tool_span_id, result, tool_results, executed_tools,
               final_llm_span_id, final_response, response_text, exc,
               outcome, gateway_log, tool_log>>

VARIABLES
    access_token,      \* DataverseAuth._access_token
    token_expires_at,  \* DataverseAuth._token_expires_at
    clock,             \* time.time(), in seconds
    token_expiry,      \* history: when the last token obtained expires
    auth_call,         \* history: the last get_access_token call
    auth_ops           \* history: the number of calls made and delays passed

authVars == <<access_token, token_expires_at, clock, token_expiry, auth_call,
              auth_ops>>

vars == <<storeVars, agentVars, authVars>>

\* A request id callers of create_trace pass explicitly (and may pass again).
RequestIds == {1}
SpanTypes == {"AGENT", "LLM", "TOOL"}
SpanStatuses == {"OK", "ERROR"}

\* ------------------------------------------------- OrderedDict primitives
\* The keys of the OrderedDict, in insertion order.
Keys(d) == [i \in 1..Len(d) |-> d[i].trace_id]

\* `key in d`
Contains(d, key) == \E i \in 1..Len(d) : d[i].trace_id = key

\* The position of `key` (keys are unique).
IndexOf(d, key) == CHOOSE i \in 1..Len(d) : d[i].trace_id = key

\* d[key] = value that never replaces (mutant of SetItem): a second entry
\* under the same key.
SetItemDuplicating(d, key, value) == Append(d, value)

\* d[key] = value: a new key goes to the end, an existing key keeps its place.
SetItem(d, key, value) ==
    IF Contains(d, key)
    THEN [d EXCEPT ![IndexOf(d, key)] = value]
    ELSE Append(d, value)

\* d.popitem(): drops the newest entry (mutant of PopOldest).
PopNewest(d) == SubSeq(d, 1, Len(d) - 1)

\* d.popitem(last=False): drops the oldest entry.
PopOldest(d) == Tail(d)

\* while len(d) > n: d.popitem(last=False)
RECURSIVE EvictOldest(_, _)
EvictOldest(d, n) ==
    IF Len(d) > n /\ Len(d) > 0 THEN EvictOldest(PopOldest(d), n) ELSE d

\* ------------------------------------------------------------ TraceStorage
\* str(uuid.uuid4()) as a trace id: negative, and never None.
str_uuid(u) == 0 - u - 1

\* create_trace(request_id, user_message), with `fresh` the uuid4() value
\* and `t` the clock reading.  Returns the store and the trace id.
create_trace(d, n, request_id, user_message, fresh, t) ==
    LET trace_id == IF request_id # EmptyId /\ request_id # None
                    THEN request_id ELSE str_uuid(fresh)
        trace == [trace_id |-> trace_id,
                  request_id |-> trace_id,
                  timestamp_ms |-> t,
                  status |-> "IN_PROGRESS",
                  spans |-> <<>>,
                  user_message |-> user_message,
                  execution_time_ms |-> None]
    IN [traces |-> EvictOldest(SetItem(d, trace_id, trace), n),
        ret |-> trace_id,
        raised |-> FALSE]

\* d[key] raises KeyError
KeyError(d, key) == ~Contains(d, key)

\* self.traces[trace_id]['spans'].append(span), with the span built before it
append_span(d, trace_id, span_type, name, inputs, parent_id, fresh, t) ==
    IF KeyError(d, trace_id)
    THEN [traces |-> d, ret |-> None, raised |-> TRUE]
    ELSE LET span == [span_id |-> fresh,
                      name |-> name,
                      span_type |-> span_type,
                      start_time_ms |-> t,
                      status |-> "RUNNING",
                      inputs |-> IF inputs = "None" THEN "{}" ELSE inputs,
                      parent_id |-> parent_id,
                      end_time_ms |-> None,
                      duration_ms |-> None,
                      outputs |-> "None"]
             i == IndexOf(d, trace_id)
         IN [traces |-> [d EXCEPT ![i].spans = Append(@, span)],
             ret |-> fresh,
             raised |-> FALSE]

\* add_span without its membership test (mutant of add_span).
add_span_unguarded(d, trace_id, span_type, name, inputs, parent_id, fresh, t) ==
    append_span(d, trace_id, span_type, name, inputs, parent_id, fresh, t)

\* add_span that records no parent (mutant of add_span).
add_span_orphaning(d, trace_id, span_type, name, inputs, parent_id, fresh, t) ==
    IF ~Contains(d, trace_id)
    THEN [traces |-> d, ret |-> EmptyId, raised |-> FALSE]
    ELSE append_span(d, trace_id, span_type, name, inputs, None, fresh, t)

\* add_span(trace_id, span_type, name, inputs, parent_id), with `fresh` the
\* first 12 characters of a uuid4() value and `t` the clock reading.
add_span(d, trace_id, span_type, name, inputs, parent_id, fresh, t) ==
    IF ~Contains(d, trace_id)
    THEN [traces |-> d, ret |-> EmptyId, raised |-> FALSE]
    ELSE append_span(d, trace_id, span_type, name, inputs, parent_id, fresh, t)

\* The first span of the list whose span_id matches (the loop breaks there);
\* 0 when none matches.
FirstMatch(spans, span_id) ==
    IF \E j \in 1..Len(spans) : spans[j].span_id = span_id
    THEN CHOOSE j \in 1..Len(spans) :
            /\ spans[j].span_id = span_id
            /\ \A k \in 1..(j - 1) : spans[k].span_id # span_id
    ELSE 0

\* The loop of complete_span completing every span of the trace once the
\* span is found (mutant of update_span).
update_span_every_span(d, trace_id, span_id, outputs, status, t) ==
    IF KeyError(d, trace_id)
    THEN [traces |-> d, ret |-> None, raised |-> TRUE]
    ELSE LET i == IndexOf(d, trace_id)
             j == FirstMatch(d[i].spans, span_id)
         IN IF j = 0
            THEN [traces |-> d, ret |-> None, raised |-> FALSE]
            ELSE [traces |->
                    [d EXCEPT ![i].spans =
                        [k \in 1..Len(d[i].spans) |->
                            [d[i].spans[k] EXCEPT
                                !.end_time_ms = t,
                                !.duration_ms = t - d[i].spans[k].start_time_ms,
                                !.outputs = IF outputs = "None" THEN "{}"
                                            ELSE outputs,
                                !.status = status]]],
                  ret |-> None,
                  raised |-> FALSE]

\* The loop of complete_span over self.traces[trace_id]['spans'].
update_span(d, trace_id, span_id, outputs, status, t) ==
    IF KeyError(d, trace_id)
    THEN [traces |-> d, ret |-> None, raised |-> TRUE]
    ELSE LET i == IndexOf(d, trace_id)
             j == FirstMatch(d[i].spans, span_id)
         IN IF j = 0
            THEN [traces |-> d, ret |-> None, raised |-> FALSE]
            ELSE [traces |->
                    [d EXCEPT ![i].spans[j] =
                        [@ EXCEPT !.end_time_ms = t,
                                  !.duration_ms = t - d[i].spans[j].start_time_ms,
                                  !.outputs = IF outputs = "None" THEN "{}"
                                              ELSE outputs,
                                  !.status = status]],
                  ret |-> None,
                  raised |-> FALSE]

\* complete_span that returns without updating the span (mutant of
\* complete_span).
complete_span_skipped(d, trace_id, span_id, outputs, status, t) ==
    [traces |-> d, ret |-> None, raised |-> FALSE]

\* complete_span(trace_id, span_id, outputs, status)
complete_span(d, trace_id, span_id, outputs, status, t) ==
    IF ~Contains(d, trace_id)
    THEN [traces |-> d, ret |-> None, raised |-> FALSE]
    ELSE update_span(d, trace_id, span_id, outputs, status, t)

\* complete_trace recording the execution time and leaving the status as
\* it is (mutant of update_trace).
update_trace_keeping_status(d, trace_id, status, t) ==
    IF KeyError(d, trace_id)
    THEN [traces |-> d, ret |-> None, raised |-> TRUE]
    ELSE LET i == IndexOf(d, trace_id)
         IN [traces |-> [d EXCEPT ![i].execution_time_ms = t - d[i].timestamp_ms],
             ret |-> None,
             raised |-> FALSE]

\* trace = self.traces[trace_id]; trace['status'] = ...; trace['execution_time_ms'] = ...
update_trace(d, trace_id, status, t) ==
    IF KeyError(d, trace_id)
    THEN [traces |-> d, ret |-> None, raised |-> TRUE]
    ELSE LET i == IndexOf(d, trace_id)
         IN [traces |-> [d EXCEPT ![i].status = status,
                                  ![i].execution_time_ms = t - d[i].timestamp_ms],
             ret |-> None,
             raised |-> FALSE]

\* complete_trace(trace_id, status)
complete_trace(d, trace_id, status, t) ==
    IF Contains(d, trace_id)
    THEN update_trace(d, trace_id, status, t)
    ELSE [traces |-> d, ret |-> None, raised |-> FALSE]

\* Python None where a trace dict is expected (Optional[Dict]).
NoTrace == [trace_id |-> None]

\* get_trace(trace_id): self.traces.get(trace_id)
get_trace(d, trace_id) ==
    IF Contains(d, trace_id) THEN d[IndexOf(d, trace_id)] ELSE NoTrace

\* list(reversed(list(d.values())))
Reversed(s) == [i \in 1..Len(s) |-> s[Len(s) + 1 - i]]

\* s[lo:hi] for 0 <= lo, 0 <= hi (Python slice, 0-based, hi exclusive)
Slice(s, lo, hi) ==
    LET a == IF lo > Len(s) THEN Len(s) ELSE lo
        b == IF hi > Len(s) THEN Len(s) ELSE hi
    IN IF b <= a THEN <<>> ELSE SubSeq(s, a + 1, b)

\* list_traces(limit, offset)
list_traces(d, limit, offset) ==
    LET all_traces == Reversed(d)
    IN Slice(all_traces, offset, offset + limit)

\* get_total_traces()
get_total_traces(d) == Len(d)

\* ------------------------------------------------------------ agent_chat
\* The absence of a key in a message dict.
Absent == "<absent>"

\* The fixed texts of agent_chat.
SystemPrompt ==
    "You are a helpful assistant with access to Dataverse data. Use the available tools to answer user questions with actual data."
Apology == "I apologize, but I couldn't generate a response."

system_message ==
    [role |-> "system", content |-> SystemPrompt, tool_calls |-> <<>>,
     tool_call_id |-> None]

\* str.strip() on the message texts callers send here.
Strip(text) == IF text = "list 2 tables\n" THEN "list 2 tables" ELSE text

\* get_databricks_token(request): the forwarded header, else the environment.
get_databricks_token(header, environ) ==
    IF header # "" THEN header ELSE environ

\* A token check that lets every token pass (mutant of TokenMissing).
TokenNeverMissing(token) == FALSE

\* `not db_token`
TokenMissing(token) == token = ""

\* The tools agent_chat dispatches on, with the keyword parameters of their
\* handlers: those without a default, and all of them.
RegisteredTools ==
    {"list_tables", "describe_table", "read_query", "create_record",
     "update_record"}

RequiredParams(tool_name) ==
    CASE tool_name = "list_tables" -> {}
      [] tool_name = "describe_table" -> {"table_name"}
      [] tool_name = "read_query" -> {"table_name"}
      [] tool_name = "create_record" -> {"table_name", "data"}
      [] tool_name = "update_record" -> {"table_name", "record_id", "data"}
      [] OTHER -> {}

AcceptedParams(tool_name) ==
    CASE tool_name = "list_tables" -> {"filter_query", "top", "custom_only"}
      [] tool_name = "describe_table" -> {"table_name"}
      [] tool_name = "read_query" ->
            {"table_name", "select", "filter_query", "order_by", "top"}
      [] tool_name = "create_record" -> {"table_name", "data"}
      [] tool_name = "update_record" -> {"table_name", "record_id", "data"}
      [] OTHER -> {}

\* json.loads on the argument strings the model sends here: the keys of the
\* decoded object, and whether decoding fails.
JSONDecodeError(text) == text = "not json"

json_loads(text) ==
    CASE text = "{}" -> {}
      [] text = "{\"table_name\": \"account\"}" -> {"table_name"}
      [] text = "{\"top\": 2}" -> {"top"}
      [] OTHER -> {}

\* Arguments that keep the undecodable text as one argument (mutant of
\* ParseArguments).
ParseArgumentsKeepingText(text) ==
    IF JSONDecodeError(text) THEN {"arguments"} ELSE json_loads(text)

\* tool_args after lines 430-434: a decode failure yields {}.
ParseArguments(text) == IF JSONDecodeError(text) THEN {} ELSE json_loads(text)

\* handler(**tool_args) raises TypeError: a required parameter is missing
\* or a keyword is not one of the handler's parameters.
TypeError(tool_name, tool_args) ==
    \/ ~(RequiredParams(tool_name) \subseteq tool_args)
    \/ ~(tool_args \subseteq AcceptedParams(tool_name))

\* A structured tool result, and json.dumps of one.
Success == [success |-> TRUE, error |-> Absent]

\* A failure whose success flag says true (mutant of Failure).
FailureFlaggedSuccess(message) == [success |-> TRUE, error |-> message]

\* {"success": False, "error": ...}
Failure(message) == [success |-> FALSE, error |-> message]

json_dumps(value) == [json |-> value]

\* The message lists a caller posts (ChatMessage: role and content): none,
\* a question, or a question after an earlier turn sent back with its
\* assistant and tool messages.
CallerMessages ==
    {<<>>,
     <<[role |-> "user", content |-> "list 2 tables\n"]>>,
     <<[role |-> "user", content |-> "list 2 tables\n"],
       [role |-> "assistant", content |-> "Let me look."],
       [role |-> "tool", content |-> json_dumps(Success)],
       [role |-> "user", content |-> "list 2 tables\n"]>>}

\* The outcome of the dispatch of lines 445-457 for one tool call: the dict
\* the handler returns (it catches the backend's errors itself), the
\* failure synthesized for an unknown name, or the exception raised.
Dispatch(tool_name, tool_args, backend) ==
    IF tool_name \in RegisteredTools
    THEN IF TypeError(tool_name, tool_args)
         THEN [raised |-> TRUE, e |-> "TypeError"]
         ELSE [raised |-> FALSE,
               value |-> IF backend = "ok" THEN Success
                         ELSE Failure("backend error")]
    ELSE [raised |-> FALSE, value |-> Failure("Unknown tool")]

\* ----------------------------------------------------- the Model Gateway
\* What the model may ask for in one tool call.
ToolCallKinds ==
    {[name |-> "list_tables", arguments |-> "{\"top\": 2}"],
     [name |-> "list_tables", arguments |-> "not json"],
     [name |-> "describe_table", arguments |-> "not json"],
     [name |-> "describe_table", arguments |-> "{\"table_name\": \"account\"}"],
     [name |-> "drop_table", arguments |-> "{}"]}

\* The tool calls the gateway has returned so far in this request.
RECURSIVE Requested(_)
Requested(log) ==
    IF log = <<>> THEN 0
    ELSE Len(Head(log).response.tool_calls) + Requested(Tail(log))

\* Tool call lists of a response: ids are unique over the request.
ToolCallLists(first_id, most) ==
    UNION {{[p \in 1..n |-> [id |-> first_id + p - 1,
                              name |-> kinds[p].name,
                              arguments |-> kinds[p].arguments]] :
                kinds \in [1..n -> ToolCallKinds]} : n \in 0..most}

\* The text of the n-th response.
Text(n) == IF n = 1 THEN "Let me look." ELSE "Found 2 tables."

\* What call_foundation_model can do on the n-th call: raise (transport
\* error, non-2xx status), return a payload without choices, with an empty
\* choices list or with a choice without message, or return a message.
GatewayResponses(n, first_id, most) ==
    {[kind |-> kind, content |-> "None", tool_calls |-> <<>>] :
        kind \in {"raise", "choices_missing", "choices_empty", "no_message"}}
    \cup
    {[kind |-> "ok", content |-> content, tool_calls |-> tool_calls] :
        content \in {"None", "", Text(n)},
        tool_calls \in ToolCallLists(first_id, most)}

\* `value is not None` (mutant of Truthy).
IsNotNone(text) == text # "None"

\* bool(value) of a text or None
Truthy(text) == text # "None" /\ text # ""

\* What a call that finds nothing to act on returns.
NoOp(d, ret) == [traces |-> d, ret |-> ret, raised |-> FALSE]

\* ------------------------------------------------- the state of agent_chat
\* The last element of a non-empty sequence (seq[-1]).
Last(seq) == seq[Len(seq)]

\* Locals that are not assigned yet.
NoResponse == [kind |-> "none", content |-> "None", tool_calls |-> <<>>]
NoResult == [raised |-> FALSE]
NoExc == [type |-> "none", status_code |-> 0, detail |-> <<>>]
NoOutcome == [kind |-> "none", body |-> [response |-> "None"]]

\* HTTPException(status_code, detail) and any other exception, with str(e).
HTTPException(status_code, detail) ==
    [type |-> "HTTPException", status_code |-> status_code, detail |-> detail]

Exception(message) ==
    [type |-> "Exception", status_code |-> 0, detail |-> <<message>>]

\* An AgentChatResponse left with the default trace_id, None (mutant of
\* AgentChatResponse).
AgentChatResponseUntraced(text, tool_calls, id) ==
    [response |-> text, tool_calls |-> tool_calls, trace_id |-> None]

\* AgentChatResponse(response, tool_calls, trace_id): tool_calls is
\* Optional, here a record saying whether it is None.
AgentChatResponse(text, tool_calls, id) ==
    [response |-> text, tool_calls |-> tool_calls, trace_id |-> id]

OptionalNone == [none |-> TRUE, list |-> <<>>]
OptionalList(list) == [none |-> FALSE, list |-> list]

\* message.get('content') returned as it is (mutant of content_or_apology).
content_verbatim(content) == content

\* message.get('content') or "I apologize, but I couldn't generate a response."
content_or_apology(content) == IF Truthy(content) THEN content ELSE Apology

\* The caller's messages copied last first (mutant of message_dicts).
message_dicts_reversed(messages) ==
    [i \in 1..Len(messages) |->
        [role |-> messages[Len(messages) + 1 - i].role,
         content |-> messages[Len(messages) + 1 - i].content,
         tool_calls |-> <<>>, tool_call_id |-> None]]

\* {"role": msg.role, "content": msg.content} for msg in chat_request.messages
message_dicts(messages) ==
    [i \in 1..Len(messages) |->
        [role |-> messages[i].role, content |-> messages[i].content,
         tool_calls |-> <<>>, tool_call_id |-> None]]

\* assistant_msg: content is included only when it is non-empty.
assistant_msg(message) ==
    [role |-> "assistant",
     content |-> IF Truthy(message.content) THEN message.content ELSE Absent,
     tool_calls |-> message.tool_calls,
     tool_call_id |-> None]

\* The tool messages appended for tool_results, one per result, in order.
tool_messages(results) ==
    [i \in 1..Len(results) |->
        [role |-> "tool", content |-> results[i].content,
         tool_calls |-> <<>>, tool_call_id |-> results[i].tool_use_id]]

\* No chat request has arrived.
AgentIdle ==
    /\ pc = "idle"
    /\ chat_request = [messages |-> <<>>]
    /\ agent_trace_id = None
    /\ agent_user_message = ""
    /\ agent_span_id = None
    /\ db_token = ""
    /\ model_messages = <<>>
    /\ llm_span_id = None
    /\ response = NoResponse
    /\ tool_index = 0
    /\ tool_span_id = None
    /\ result = NoResult
    /\ tool_results = <<>>
    /\ executed_tools = <<>>
    /\ final_llm_span_id = None
    /\ final_response = NoResponse
    /\ response_text = "None"
    /\ exc = NoExc
    /\ outcome = NoOutcome
    /\ gateway_log = <<>>
    /\ tool_log = <<>>

\* ------------------------------------------------------- DataverseAuth
\* The access tokens the token endpoint issues.
Tokens == {"tokenA", "tokenB"}

\* The expires_in of a token response: absent, or a number of seconds.
ExpiresIn == {None, ExpiryBuffer, ExpiryBuffer + 1}

\* No reply: the token endpoint was not contacted.
NoReply == [ok |-> FALSE, access_token |-> "None", expires_in |-> None, e |-> ""]

\* What requests.post and raise_for_status can produce: a token response,
\* or a RequestException (an HTTP error status, no connection, a timeout).
TokenReplies ==
    {[ok |-> TRUE, access_token |-> t, expires_in |-> x, e |-> ""] :
        t \in Tokens, x \in ExpiresIn}
    \cup {[ok |-> FALSE, access_token |-> "None", expires_in |-> None, e |-> x] :
        x \in {"HTTPError", "ConnectionError"}}

\* The token cache of a DataverseAuth instance.
TokenCache(token, expires_at) ==
    [access_token |-> token, token_expires_at |-> expires_at]

\* RuntimeError(error_msg)
RuntimeError == "RuntimeError"

\* get_access_token caching the token until its expiry, without the buffer
\* (mutant of get_access_token).
get_access_token_unbuffered(self, force_refresh, current_time, reply) ==
    IF ~force_refresh /\ Truthy(self.access_token)
       /\ current_time < self.token_expires_at
    THEN [self |-> self, posted |-> FALSE, raised |-> FALSE, e |-> "",
          ret |-> self.access_token]
    ELSE IF reply.ok
    THEN LET expires_in == IF reply.expires_in = None THEN DefaultExpiresIn
                           ELSE reply.expires_in
         IN [self |-> TokenCache(reply.access_token, current_time + expires_in),
             posted |-> TRUE, raised |-> FALSE, e |-> "",
             ret |-> reply.access_token]
    ELSE [self |-> self, posted |-> TRUE, raised |-> TRUE, e |-> RuntimeError,
          ret |-> "None"]

\* DataverseAuth.get_access_token, with the reply of the token endpoint
\* should it be contacted: the new cache, whether the endpoint was
\* contacted, and what is returned or raised.
get_access_token(self, force_refresh, current_time, reply) ==
    IF ~force_refresh /\ Truthy(self.access_token)
       /\ current_time < self.token_expires_at
    THEN [self |-> self, posted |-> FALSE, raised |-> FALSE, e |-> "",
          ret |-> self.access_token]
    ELSE IF reply.ok
    THEN LET expires_in == IF reply.expires_in = None THEN DefaultExpiresIn
                           ELSE reply.expires_in
         IN [self |-> TokenCache(reply.access_token,
                                 current_time + expires_in - ExpiryBuffer),
             posted |-> TRUE, raised |-> FALSE, e |-> "",
             ret |-> reply.access_token]
    ELSE [self |-> self, posted |-> TRUE, raised |-> TRUE, e |-> RuntimeError,
          ret |-> "None"]

\* The last get_access_token call, before any call was made.
NoAuthCall ==
    [made |-> FALSE, force_refresh |-> FALSE, current_time |-> 0,
     before |-> TokenCache("None", 0), expiry_before |-> 0,
     reply |-> NoReply, posted |-> FALSE, raised |-> FALSE, e |-> "",
     ret |-> "None"]

\* DataverseAuth.__init__: the token cache is empty; no call was made.
AuthFresh ==
    /\ access_token = "None"
    /\ token_expires_at = 0
    /\ clock = 1
    /\ token_expiry = 0
    /\ auth_call = NoAuthCall
    /\ auth_ops = 0

\* ---------------------------------------------------- direct store calls
\* The elements of a sequence.
Range(seq) == {seq[k] : k \in 1..Len(seq)}

\* The trace ids a caller can name: request ids and the ids create_trace
\* has returned (stored or evicted since).
TraceIds == RequestIds \cup Range(created)

\* The ids of the spans of a trace (none for NoTrace).
SpanIdsOf(trace) ==
    IF trace = NoTrace THEN {}
    ELSE {trace.spans[j].span_id : j \in 1..Len(trace.spans)}

\* The span ids a caller can name: "" and the id of every stored span.
SpanIds == {EmptyId} \cup UNION {SpanIdsOf(traces[i]) : i \in 1..Len(traces)}

InitStore ==
    /\ max_traces \in 1..MaxN
    /\ traces = <<>>
    /\ now = 0
    /\ uuids = 0
    /\ raised = FALSE
    /\ missed = FALSE
    /\ created = <<>>
    /\ ops = 0
    /\ AgentIdle
    /\ AuthFresh

\* The clock is logical: a millisecond passes with every create_trace.
CreateTrace ==
    \E request_id \in RequestIds \cup {EmptyId} :
        LET r == create_trace(traces, max_traces, request_id, "q", uuids + 1, now)
        IN /\ ops < MaxOps
           /\ traces' = r.traces
           /\ raised' = r.raised
           /\ uuids' = IF request_id = EmptyId THEN uuids + 1 ELSE uuids
           /\ created' = Append(created, r.ret)
           /\ now' = now + 1
           /\ ops' = ops + 1
           /\ UNCHANGED <<authVars, max_traces, missed>>
           /\ UNCHANGED agentVars

\* Callers open an AGENT span first and parent every later span on it.
AddSpan ==
    \E trace_id \in TraceIds :
        LET spans == get_trace(traces, trace_id).spans
            first == ~Contains(traces, trace_id) \/ spans = <<>>
            r == add_span(traces, trace_id,
                          IF first THEN "AGENT" ELSE "TOOL",
                          "name", "None",
                          IF first THEN None ELSE spans[1].span_id,
                          uuids + 1, now)
        IN /\ ops < MaxOps
           /\ traces' = r.traces
           /\ raised' = r.raised
           /\ missed' = (missed \/ ~Contains(traces, trace_id))
           /\ uuids' = IF Contains(traces, trace_id) THEN uuids + 1 ELSE uuids
           /\ ops' = IF Contains(traces, trace_id) THEN ops + 1 ELSE ops
           /\ UNCHANGED <<authVars, max_traces, now, created>>
           /\ UNCHANGED agentVars

\* Callers complete a span OK with its outputs, or ERROR without any.
CompleteSpan ==
    \E trace_id \in TraceIds, span_id \in SpanIds, status \in SpanStatuses :
        LET r == complete_span(traces, trace_id, span_id,
                               IF status = "OK" THEN "out" ELSE "None",
                               status, now)
        IN /\ traces' = r.traces
           /\ raised' = r.raised
           /\ missed' = (missed \/ span_id \notin
                            SpanIdsOf(get_trace(traces, trace_id)))
           /\ UNCHANGED <<authVars, max_traces, now, uuids, created, ops>>
           /\ UNCHANGED agentVars

CompleteTrace ==
    \E trace_id \in TraceIds, status \in SpanStatuses :
        LET r == complete_trace(traces, trace_id, status, now)
        IN /\ traces' = r.traces
           /\ raised' = r.raised
           /\ missed' = (missed \/ ~Contains(traces, trace_id))
           /\ UNCHANGED <<authVars, max_traces, now, uuids, created, ops>>
           /\ UNCHANGED agentVars

\* The read calls return a value and change nothing.
GetTrace ==
    \E trace_id \in TraceIds :
        /\ get_trace(traces, trace_id) \in {NoTrace} \cup Range(traces)
        /\ raised' = FALSE
        /\ UNCHANGED <<authVars, max_traces, traces, now, uuids, missed, created, ops>>
        /\ UNCHANGED agentVars

ListTraces ==
    \E limit \in {1, DefaultLimit}, offset \in 0..Len(traces) :
        /\ Len(list_traces(traces, limit, offset)) <= limit
        /\ raised' = FALSE
        /\ UNCHANGED <<authVars, max_traces, traces, now, uuids, missed, created, ops>>
        /\ UNCHANGED agentVars

GetTotalTraces ==
    /\ get_total_traces(traces) >= 0
    /\ raised' = FALSE
    /\ UNCHANGED <<authVars, max_traces, traces, now, uuids, missed, created, ops>>
    /\ UNCHANGED agentVars

NextStore ==
    \/ CreateTrace
    \/ AddSpan
    \/ CompleteSpan
    \/ CompleteTrace
    \/ GetTrace
    \/ ListTraces
    \/ GetTotalTraces

SpecStore == InitStore /\ [][NextStore]_vars

\* -------------------------------------------------- agent_chat, step by step
\* The server starts with the module-level store and no request.
Init ==
    /\ max_traces = DefaultMaxTraces
    /\ traces = <<>>
    /\ now = 0
    /\ uuids = 0
    /\ raised = FALSE
    /\ missed = FALSE
    /\ created = <<>>
    /\ ops = 0
    /\ AgentIdle
    /\ AuthFresh

\* A chat request arrives: trace_id = str(uuid.uuid4()), user_message is the
\* stripped content of the last message ("" without messages).
ReceiveRequest ==
    /\ pc = "idle"
    /\ \E messages \in CallerMessages :
        /\ chat_request' = [messages |-> messages]
        /\ agent_user_message' = Strip(IF messages # <<>> THEN Last(messages).content
                                 ELSE "")
    /\ agent_trace_id' = str_uuid(uuids + 1)
    /\ uuids' = uuids + 1
    /\ pc' = "create_trace"
    /\ UNCHANGED <<authVars, max_traces, traces, now, raised, missed, created, ops,
                   agent_span_id, db_token, model_messages, llm_span_id,
                   response, tool_index, tool_span_id, result,
                   tool_results, executed_tools, final_llm_span_id,
                   final_response, response_text, exc, outcome,
                   gateway_log, tool_log>>

\* trace_storage.create_trace(trace_id, user_message)
CreateRequestTrace ==
    /\ pc = "create_trace"
    /\ LET r == create_trace(traces, max_traces, agent_trace_id, agent_user_message,
                             uuids + 1, now)
       IN /\ traces' = r.traces
          /\ raised' = r.raised
          /\ created' = Append(created, r.ret)
    /\ now' = now + 1
    /\ pc' = "agent_span"
    /\ UNCHANGED <<authVars, max_traces, uuids, missed, ops, chat_request,
                   agent_trace_id, agent_user_message, agent_span_id,
                   db_token, model_messages, llm_span_id, response,
                   tool_index, tool_span_id, result, tool_results,
                   executed_tools, final_llm_span_id, final_response,
                   response_text, exc, outcome, gateway_log, tool_log>>

\* agent_span_id = trace_storage.add_span(trace_id, "AGENT", "Agent Chat", ...)
OpenAgentSpan ==
    /\ pc = "agent_span"
    /\ LET r == add_span(traces, agent_trace_id, "AGENT", "Agent Chat",
                         "user_question", None, uuids + 1, now)
       IN /\ traces' = r.traces
          /\ raised' = r.raised
          /\ agent_span_id' = r.ret
    /\ uuids' = uuids + 1
    /\ pc' = "token"
    /\ UNCHANGED <<authVars, max_traces, now, missed, created, ops, chat_request,
                   agent_trace_id, agent_user_message, db_token,
                   model_messages, llm_span_id, response, tool_index,
                   tool_span_id, result, tool_results, executed_tools,
                   final_llm_span_id, final_response, response_text, exc,
                   outcome, gateway_log, tool_log>>

\* db_token = get_databricks_token(request); without a token HTTP 401 is
\* raised, with one the conversation is seeded: the system message, then
\* the caller's messages.
GetToken ==
    /\ pc = "token"
    /\ \E header \in {"", "dapi"}, environ \in {"", "dapi"} :
        LET token == get_databricks_token(header, environ)
        IN /\ db_token' = token
           /\ IF TokenMissing(token)
              THEN /\ exc' = HTTPException(401,
                        <<"No Databricks authentication token available">>)
                   /\ pc' = "except"
                   /\ UNCHANGED model_messages
              ELSE /\ model_messages' =
                        <<system_message>> \o message_dicts(chat_request.messages)
                   /\ pc' = "llm_span"
                   /\ UNCHANGED exc
    /\ UNCHANGED <<authVars, max_traces, traces, now, uuids, raised, missed, created,
                   ops, chat_request, agent_trace_id, agent_user_message,
                   agent_span_id, llm_span_id, response, tool_index,
                   tool_span_id, result, tool_results, executed_tools,
                   final_llm_span_id, final_response, response_text,
                   outcome, gateway_log, tool_log>>

\* llm_span_id = trace_storage.add_span(trace_id, "LLM", ..., parent_id=agent_span_id)
OpenLlmSpan ==
    /\ pc = "llm_span"
    /\ LET r == add_span(traces, agent_trace_id, "LLM", "llm/invocations",
                         "user_question", agent_span_id, uuids + 1, now)
       IN /\ traces' = r.traces
          /\ raised' = r.raised
          /\ llm_span_id' = r.ret
    /\ uuids' = uuids + 1
    /\ pc' = "call_model"
    /\ UNCHANGED <<authVars, max_traces, now, missed, created, ops, chat_request,
                   agent_trace_id, agent_user_message, agent_span_id,
                   db_token, model_messages, response, tool_index,
                   tool_span_id, result, tool_results, executed_tools,
                   final_llm_span_id, final_response, response_text, exc,
                   outcome, gateway_log, tool_log>>

\* response = call_foundation_model(messages=model_messages, ...)
CallModel ==
    /\ pc = "call_model"
    /\ \E resp \in GatewayResponses(1, 1, MaxToolCalls) :
        /\ response' = resp
        /\ gateway_log' = Append(gateway_log,
                [messages |-> model_messages,
                 n_messages |-> Len(model_messages), response |-> resp])
    /\ pc' = "llm_done"
    /\ UNCHANGED <<authVars, max_traces, traces, now, uuids, raised, missed, created,
                   ops, chat_request, agent_trace_id, agent_user_message,
                   agent_span_id, db_token, model_messages, llm_span_id,
                   tool_index, tool_span_id, result, tool_results,
                   executed_tools, final_llm_span_id, final_response,
                   response_text, exc, outcome, tool_log>>

\* What follows the model call, for `resp` the outcome of the call and
\* `final` telling the second call from the first: the status the LLM span
\* is completed with, and the exception raised, if any.
After(resp, final) ==
    LET tag == IF final THEN " (final)" ELSE ""
    IN CASE resp.kind = "raise" ->
              [status |-> "ERROR",
               exc |-> HTTPException(500,
                    <<"Error calling Databricks Foundation Model", tag,
                      ": ", "Request failed">>)]
         [] resp.kind = "choices_empty" ->
              [status |-> "ERROR",
               exc |-> HTTPException(500,
                    <<"Error calling Databricks Foundation Model", tag,
                      ": ", "list index out of range">>)]
         [] resp.kind = "choices_missing" ->
              [status |-> "OK",
               exc |-> HTTPException(500,
                    <<IF final THEN "No final response from model"
                      ELSE "No response from model">>)]
         [] resp.kind = "no_message" ->
              [status |-> "OK", exc |-> Exception("'message'")]
         [] OTHER -> [status |-> "OK", exc |-> NoExc]

\* The LLM span is completed (OK with a summary of the message, ERROR when
\* the call or the summary raised); then an error is raised, or the tool
\* calls are taken up, or the text is the direct response.
CompleteLlmSpan ==
    /\ pc = "llm_done"
    /\ LET after == After(response, FALSE)
           r == complete_span(traces, agent_trace_id, llm_span_id,
                    IF after.status = "ERROR" THEN "error"
                    ELSE IF response.tool_calls # <<>> THEN "call_tools"
                    ELSE "response",
                    after.status, now)
       IN /\ traces' = r.traces
          /\ raised' = r.raised
          /\ exc' = after.exc
          /\ IF after.exc # NoExc
             THEN /\ pc' = "except"
                  /\ UNCHANGED <<tool_index, response_text>>
             ELSE IF response.tool_calls # <<>>
             THEN /\ pc' = "tool_span"
                  /\ tool_index' = 1
                  /\ UNCHANGED response_text
             ELSE /\ pc' = "agent_done"
                  /\ response_text' = content_or_apology(response.content)
                  /\ UNCHANGED tool_index
    /\ UNCHANGED <<authVars, max_traces, now, uuids, missed, created, ops,
                   chat_request, agent_trace_id, agent_user_message,
                   agent_span_id, db_token, model_messages, llm_span_id,
                   response, tool_span_id, result, tool_results,
                   executed_tools, final_llm_span_id, final_response,
                   outcome, gateway_log, tool_log>>

\* tool_span_id = trace_storage.add_span(trace_id, "TOOL", tool_name, ...,
\* parent_id=llm_span_id) for the tool_index-th tool call of the response.
OpenToolSpan ==
    /\ pc = "tool_span"
    /\ LET tool_call == response.tool_calls[tool_index]
           r == add_span(traces, agent_trace_id, "TOOL", tool_call.name,
                         "arguments", llm_span_id, uuids + 1, now)
       IN /\ traces' = r.traces
          /\ raised' = r.raised
          /\ tool_span_id' = r.ret
    /\ uuids' = uuids + 1
    /\ pc' = "exec_tool"
    /\ UNCHANGED <<authVars, max_traces, now, missed, created, ops, chat_request,
                   agent_trace_id, agent_user_message, agent_span_id,
                   db_token, model_messages, llm_span_id, response,
                   tool_index, result, tool_results, executed_tools,
                   final_llm_span_id, final_response, response_text, exc,
                   outcome, gateway_log, tool_log>>

\* result = <tool>_impl(**tool_args), or the unknown-tool failure.
ExecTool ==
    /\ pc = "exec_tool"
    /\ \E backend \in {"ok", "error"} :
        LET tool_call == response.tool_calls[tool_index]
            tool_args == ParseArguments(tool_call.arguments)
            r == Dispatch(tool_call.name, tool_args, backend)
        IN /\ result' = r
           /\ tool_log' = Append(tool_log,
                    [id |-> tool_call.id, name |-> tool_call.name,
                     args |-> tool_args, raised |-> r.raised])
    /\ pc' = "tool_done"
    /\ UNCHANGED <<authVars, max_traces, traces, now, uuids, raised, missed, created,
                   ops, chat_request, agent_trace_id, agent_user_message,
                   agent_span_id, db_token, model_messages, llm_span_id,
                   response, tool_index, tool_span_id, tool_results,
                   executed_tools, final_llm_span_id, final_response,
                   response_text, exc, outcome, gateway_log>>

\* What is recorded for a tool call: the handler's result, or the failure
\* made from the exception it raised.
Recorded(r) == IF r.raised THEN Failure(r.e) ELSE r.value

\* The TOOL span is completed (OK with the result, ERROR when the handler
\* raised), the result is appended to tool_results and executed_tools, and
\* the loop goes to the next tool call.
CompleteToolSpan ==
    /\ pc = "tool_done"
    /\ LET tool_call == response.tool_calls[tool_index]
           r == complete_span(traces, agent_trace_id, tool_span_id,
                    IF result.raised THEN "error" ELSE "result",
                    IF result.raised THEN "ERROR" ELSE "OK", now)
       IN /\ traces' = r.traces
          /\ raised' = r.raised
          /\ tool_results' = Append(tool_results,
                [type |-> "tool_result", tool_use_id |-> tool_call.id,
                 content |-> json_dumps(Recorded(result))])
          /\ executed_tools' = Append(executed_tools,
                [tool |-> tool_call.name,
                 args |-> ParseArguments(tool_call.arguments),
                 result |-> Recorded(result)])
    /\ tool_index' = tool_index + 1
    /\ pc' = IF tool_index < Len(response.tool_calls) THEN "tool_span"
             ELSE "final_llm_span"
    /\ UNCHANGED <<authVars, max_traces, now, uuids, missed, created, ops,
                   chat_request, agent_trace_id, agent_user_message,
                   agent_span_id, db_token, model_messages, llm_span_id,
                   response, tool_span_id, result, final_llm_span_id,
                   final_response, response_text, exc, outcome,
                   gateway_log, tool_log>>

\* The assistant message and the tool messages are appended to the
\* conversation, and the final LLM span is opened under the AGENT span.
OpenFinalLlmSpan ==
    /\ pc = "final_llm_span"
    /\ model_messages' = model_messages \o <<assistant_msg(response)>>
                            \o tool_messages(tool_results)
    /\ LET r == add_span(traces, agent_trace_id, "LLM", "llm/invocations (final)",
                         "tools_executed", agent_span_id, uuids + 1, now)
       IN /\ traces' = r.traces
          /\ raised' = r.raised
          /\ final_llm_span_id' = r.ret
    /\ uuids' = uuids + 1
    /\ pc' = "call_final"
    /\ UNCHANGED <<authVars, max_traces, now, missed, created, ops, chat_request,
                   agent_trace_id, agent_user_message, agent_span_id,
                   db_token, llm_span_id, response, tool_index,
                   tool_span_id, result, tool_results, executed_tools,
                   final_response, response_text, exc, outcome,
                   gateway_log, tool_log>>

\* final_response = call_foundation_model(messages=model_messages, ...)
CallFinalModel ==
    /\ pc = "call_final"
    /\ \E resp \in GatewayResponses(2, Requested(gateway_log) + 1,
                                    MaxToolCalls - Requested(gateway_log)) :
        /\ final_response' = resp
        /\ gateway_log' = Append(gateway_log,
                [messages |-> model_messages,
                 n_messages |-> Len(model_messages), response |-> resp])
    /\ pc' = "final_llm_done"
    /\ UNCHANGED <<authVars, max_traces, traces, now, uuids, raised, missed, created,
                   ops, chat_request, agent_trace_id, agent_user_message,
                   agent_span_id, db_token, model_messages, llm_span_id,
                   response, tool_index, tool_span_id, result,
                   tool_results, executed_tools, final_llm_span_id,
                   response_text, exc, outcome, tool_log>>

\* The final LLM span is completed; then an error is raised or the text of
\* the final message is the response (its tool calls are not looked at).
CompleteFinalLlmSpan ==
    /\ pc = "final_llm_done"
    /\ LET after == After(final_response, TRUE)
           r == complete_span(traces, agent_trace_id, final_llm_span_id,
                    IF after.status = "ERROR" THEN "error" ELSE "response",
                    after.status, now)
       IN /\ traces' = r.traces
          /\ raised' = r.raised
          /\ exc' = after.exc
          /\ IF after.exc # NoExc
             THEN /\ pc' = "except"
                  /\ UNCHANGED response_text
             ELSE /\ pc' = "agent_done"
                  /\ response_text' = content_or_apology(final_response.content)
    /\ UNCHANGED <<authVars, max_traces, now, uuids, missed, created, ops,
                   chat_request, agent_trace_id, agent_user_message,
                   agent_span_id, db_token, model_messages, llm_span_id,
                   response, tool_index, tool_span_id, result,
                   tool_results, executed_tools, final_llm_span_id,
                   final_response, outcome, gateway_log, tool_log>>

\* trace_storage.complete_span(trace_id, agent_span_id, {"response": ...}, "OK")
CompleteAgentSpan ==
    /\ pc = "agent_done"
    /\ LET r == complete_span(traces, agent_trace_id, agent_span_id, "response",
                              "OK", now)
       IN /\ traces' = r.traces
          /\ raised' = r.raised
    /\ pc' = "trace_done"
    /\ UNCHANGED <<authVars, max_traces, now, uuids, missed, created, ops,
                   chat_request, agent_trace_id, agent_user_message,
                   agent_span_id, db_token, model_messages, llm_span_id,
                   response, tool_index, tool_span_id, result,
                   tool_results, executed_tools, final_llm_span_id,
                   final_response, response_text, exc, outcome,
                   gateway_log, tool_log>>

\* trace_storage.complete_trace(trace_id, status="OK")
CompleteRequestTrace ==
    /\ pc = "trace_done"
    /\ LET r == complete_trace(traces, agent_trace_id, "OK", now)
       IN /\ traces' = r.traces
          /\ raised' = r.raised
    /\ pc' = "return"
    /\ UNCHANGED <<authVars, max_traces, now, uuids, missed, created, ops,
                   chat_request, agent_trace_id, agent_user_message,
                   agent_span_id, db_token, model_messages, llm_span_id,
                   response, tool_index, tool_span_id, result,
                   tool_results, executed_tools, final_llm_span_id,
                   final_response, response_text, exc, outcome,
                   gateway_log, tool_log>>

\* return AgentChatResponse(...): the executed tools after tool calls,
\* tool_calls=None for a direct response.
Return ==
    /\ pc = "return"
    /\ outcome' = [kind |-> "response",
                   body |-> AgentChatResponse(response_text,
                                IF response.tool_calls # <<>>
                                THEN OptionalList(executed_tools)
                                ELSE OptionalNone,
                                agent_trace_id)]
    /\ pc' = "done"
    /\ UNCHANGED <<authVars, max_traces, traces, now, uuids, raised, missed, created,
                   ops, chat_request, agent_trace_id, agent_user_message,
                   agent_span_id, db_token, model_messages, llm_span_id,
                   response, tool_index, tool_span_id, result,
                   tool_results, executed_tools, final_llm_span_id,
                   final_response, response_text, exc, gateway_log,
                   tool_log>>

\* except HTTPException / except Exception: the AGENT span is completed
\* with status ERROR (when agent_trace_id and agent_span_id are assigned).
ExceptCompleteAgentSpan ==
    /\ pc = "except"
    /\ LET r == IF agent_trace_id # None /\ agent_span_id # None
                THEN complete_span(traces, agent_trace_id, agent_span_id, "error",
                                   "ERROR", now)
                ELSE NoOp(traces, None)
       IN /\ traces' = r.traces
          /\ raised' = r.raised
    /\ pc' = "except_trace"
    /\ UNCHANGED <<authVars, max_traces, now, uuids, missed, created, ops,
                   chat_request, agent_trace_id, agent_user_message,
                   agent_span_id, db_token, model_messages, llm_span_id,
                   response, tool_index, tool_span_id, result,
                   tool_results, executed_tools, final_llm_span_id,
                   final_response, response_text, exc, outcome,
                   gateway_log, tool_log>>

\* trace_storage.complete_trace(trace_id, status="ERROR")
ExceptCompleteTrace ==
    /\ pc = "except_trace"
    /\ LET r == IF agent_trace_id # None /\ agent_span_id # None
                THEN complete_trace(traces, agent_trace_id, "ERROR", now)
                ELSE NoOp(traces, None)
       IN /\ traces' = r.traces
          /\ raised' = r.raised
    /\ pc' = "raise"
    /\ UNCHANGED <<authVars, max_traces, now, uuids, missed, created, ops,
                   chat_request, agent_trace_id, agent_user_message,
                   agent_span_id, db_token, model_messages, llm_span_id,
                   response, tool_index, tool_span_id, result,
                   tool_results, executed_tools, final_llm_span_id,
                   final_response, response_text, exc, outcome,
                   gateway_log, tool_log>>

\* raise: an HTTPException as it is, any other exception as HTTP 500.
Raise ==
    /\ pc = "raise"
    /\ outcome' = [kind |-> "http_error",
                   body |-> IF exc.type = "HTTPException"
                            THEN [status_code |-> exc.status_code,
                                  detail |-> exc.detail]
                            ELSE [status_code |-> 500,
                                  detail |-> <<"Error processing chat request: ">>
                                                \o exc.detail]]
    /\ pc' = "done"
    /\ UNCHANGED <<authVars, max_traces, traces, now, uuids, raised, missed, created,
                   ops, chat_request, agent_trace_id, agent_user_message,
                   agent_span_id, db_token, model_messages, llm_span_id,
                   response, tool_index, tool_span_id, result,
                   tool_results, executed_tools, final_llm_span_id,
                   final_response, response_text, exc, gateway_log,
                   tool_log>>

Next ==
    \/ ReceiveRequest
    \/ CreateRequestTrace
    \/ OpenAgentSpan
    \/ GetToken
    \/ OpenLlmSpan
    \/ CallModel
    \/ CompleteLlmSpan
    \/ OpenToolSpan
    \/ ExecTool
    \/ CompleteToolSpan
    \/ OpenFinalLlmSpan
    \/ CallFinalModel
    \/ CompleteFinalLlmSpan
    \/ CompleteAgentSpan
    \/ CompleteRequestTrace
    \/ Return
    \/ ExceptCompleteAgentSpan
    \/ ExceptCompleteTrace
    \/ Raise

Spec == Init /\ [][Next]_vars

\* ------------------------------------------ a server that has served before
\* agent_chat never awaits, so the event loop runs one chat request from
\* its first statement to its return before it starts the next one: a
\* request finds in the store the traces of requests that have ended.
\* The store after one more request that got a direct response: `u` uuid4()
\* calls were made before it and `t` is the clock reading.
Served(d, n, u, t) ==
    LET id == str_uuid(u + 1)
        d1 == create_trace(d, n, id, "", u + 1, t).traces
        d2 == add_span(d1, id, "AGENT", "Agent Chat", "user_question",
                       None, u + 2, t + 1).traces
        d3 == add_span(d2, id, "LLM", "llm/invocations", "user_question",
                       u + 2, u + 3, t + 1).traces
        d4 == complete_span(d3, id, u + 3, "response", "OK", t + 1).traces
        d5 == complete_span(d4, id, u + 2, "response", "OK", t + 1).traces
    IN complete_trace(d5, id, "OK", t + 1).traces

\* The store after p such requests, starting from the empty store.
RECURSIVE ServedTimes(_, _)
ServedTimes(p, n) ==
    IF p = 0 THEN <<>>
    ELSE Served(ServedTimes(p - 1, n), n, 3 * (p - 1), p - 1)

\* The store is bounded to one trace or to MaxN traces, and is empty or
\* full of the traces of earlier requests.
InitServer ==
    /\ max_traces \in {1, MaxN}
    /\ \E p \in {0, max_traces} :
        /\ traces = ServedTimes(p, max_traces)
        /\ uuids = 3 * p
        /\ now = p
        /\ created = [i \in 1..p |-> str_uuid(3 * (i - 1) + 1)]
    /\ raised = FALSE
    /\ missed = FALSE
    /\ ops = 0
    /\ AgentIdle
    /\ AuthFresh

SpecServer == InitServer /\ [][Next]_vars

\* Every call agent_chat makes returns or raises, so a step that can be
\* taken is taken.
SpecLive == Init /\ [][Next]_vars /\ WF_vars(Next)


\* ------------------------------------------------------ store properties
Distinct(seq) == \A a, b \in 1..Len(seq) : a # b => seq[a] # seq[b]

\* The last n elements of a sequence (all of it when it is shorter).
LastN(seq, n) ==
    IF Len(seq) > n THEN SubSeq(seq, Len(seq) - n + 1, Len(seq)) ELSE seq

\* C1: after create_trace calls with pairwise distinct trace ids, however
\* interleaved with the other store calls, the stored traces are the
\* max_traces most recently created ones, in creation order (so exactly
\* max_traces once more than that were created), and get_trace finds none
\* of the older ones: eviction is FIFO, whatever was read or updated.
C1_FifoEviction ==
    Distinct(created) =>
        /\ Keys(traces) = LastN(created, max_traces)
        /\ Len(created) >= max_traces => Len(traces) = max_traces
        /\ \A k \in 1..(Len(created) - max_traces) :
                get_trace(traces, created[k]) = NoTrace

\* C1 witness: two distinct traces were created in a store bounded to 2,
\* the older one was completed, and a third creation evicted the older one
\* all the same.
C1_Witness ==
    /\ Distinct(created)
    /\ max_traces = 2
    /\ Len(created) = 3
    /\ missed
    /\ get_trace(traces, created[1]) = NoTrace
    /\ get_trace(traces, created[2]).status = "OK"

\* C2: the store never holds more than max_traces traces, each under its
\* own key, and get_total_traces() is their number; every create_trace
\* returns without raising, and when it returns the trace stored under the
\* returned id is IN_PROGRESS with no spans.
C2_Bounded ==
    /\ Len(traces) <= max_traces
    /\ Cardinality(Range(Keys(traces))) = get_total_traces(traces)

C2_CreateSucceeds ==
    created' # created =>
        /\ ~raised'
        /\ get_trace(traces', Last(created')) # NoTrace
        /\ get_trace(traces', Last(created')).status = "IN_PROGRESS"
        /\ get_trace(traces', Last(created')).spans = <<>>

C2_BoundedAndCreateSucceeds == []C2_Bounded /\ [][C2_CreateSucceeds]_storeVars

\* C2 witness: more traces were created than the store holds; the store is
\* full and the trace created last is in it, IN_PROGRESS and without spans.
C2_Witness ==
    /\ Len(created) > max_traces
    /\ Len(traces) = max_traces
    /\ get_total_traces(traces) = max_traces
    /\ get_trace(traces, Last(created)).status = "IN_PROGRESS"
    /\ get_trace(traces, Last(created)).spans = <<>>

\* C3 (as claimed): once a span is OK or ERROR, no later call changes it
\* as long as it stays in its trace.
C3_CompletedSpanIsFinal ==
    [][\A i \in 1..Len(traces) :
          \A j \in 1..Len(traces[i].spans) :
              LET span == traces[i].spans[j]
                  after == get_trace(traces', traces[i].trace_id)
              IN (/\ span.status \in SpanStatuses
                  /\ after # NoTrace
                  /\ Len(after.spans) >= j
                  /\ after.spans[j].span_id = span.span_id)
                 => after.spans[j] = span]_storeVars

\* C4: no store call raises; add_span on an unknown trace id returns ""
\* and changes nothing; complete_span on an unknown trace id, or on a span
\* id the named trace does not hold, changes nothing; complete_trace on an
\* unknown trace id changes nothing; completing a span twice does not raise.
C4_MissingKeysAreNoOps ==
    /\ ~raised
    /\ \A trace_id \in TraceIds \cup {EmptyId}, span_id \in SpanIds,
          status \in SpanStatuses :
          LET once == complete_span(traces, trace_id, span_id, "out", status, now)
              twice == complete_span(once.traces, trace_id, span_id, "None",
                                     "ERROR", now)
          IN /\ ~once.raised /\ ~twice.raised
             /\ ~Contains(traces, trace_id) =>
                    /\ add_span(traces, trace_id, "TOOL", "name", "None", None,
                                uuids + 1, now) = NoOp(traces, EmptyId)
                    /\ once = NoOp(traces, None)
                    /\ complete_trace(traces, trace_id, status, now)
                            = NoOp(traces, None)
             /\ span_id \notin SpanIdsOf(get_trace(traces, trace_id)) =>
                    once = NoOp(traces, None)

\* C4 witness: calls have named traces or spans that were not stored,
\* among them an evicted trace, and a completed span is stored.
C4_Witness ==
    /\ missed
    /\ ~raised
    /\ Len(created) > Len(traces)
    /\ \E i \in 1..Len(traces) : \E j \in 1..Len(traces[i].spans) :
            traces[i].spans[j].status = "ERROR"

\* -------------------------------------------------- agent_chat properties
\* The trace of the chat request, and its spans of one type.
ThisTrace == get_trace(traces, agent_trace_id)

SpansOfType(trace, span_type) ==
    IF trace = NoTrace THEN <<>>
    ELSE SelectSeq(trace.spans, LAMBDA span : span.span_type = span_type)

AgentSpan == SpansOfType(ThisTrace, "AGENT")[1]

\* The tool calls the model has returned, over all its responses in order.
RECURSIVE RequestedCalls(_)
RequestedCalls(log) ==
    IF log = <<>> THEN <<>>
    ELSE Head(log).response.tool_calls \o RequestedCalls(Tail(log))

RequestedIds ==
    [i \in 1..Requested(gateway_log) |-> RequestedCalls(gateway_log)[i].id]

\* The ids of the tool calls dispatched, in the order of their dispatch.
ExecutedIds == [i \in 1..Len(tool_log) |-> tool_log[i].id]

\* The messages agent_chat has appended to the conversation it was seeded
\* with, and the tool-role messages among them, in order.
Appended ==
    IF gateway_log = <<>> THEN <<>>
    ELSE SubSeq(model_messages, gateway_log[1].n_messages + 1,
                Len(model_messages))

ToolMessages == SelectSeq(Appended, LAMBDA m : m.role = "tool")

ToolMessageIds == [i \in 1..Len(ToolMessages) |-> ToolMessages[i].tool_call_id]

\* json.loads of a tool message's content.
Decode(content) == content.json

\* agent_chat has returned an AgentChatResponse.
Answered == pc = "done" /\ outcome.kind = "response"

\* C5 (as claimed): when agent_chat returns an answer, the response the
\* answer is taken from carries no tool calls, and every tool call the
\* model returned has been executed: none is dropped.
C5_AnswerOnlyWithoutToolCalls ==
    Answered =>
        /\ Last(gateway_log).response.tool_calls = <<>>
        /\ ExecutedIds = RequestedIds

\* C6 (as claimed): when the model requested tool calls in every response,
\* agent_chat answers with the fixed apology text and the number of model
\* calls as iterations, having executed the tools of every response, and
\* the AGENT span and the trace are OK.
C6_ApologyWhenModelAlwaysCallsTools ==
    (/\ Answered
     /\ \A i \in 1..Len(gateway_log) :
            gateway_log[i].response.tool_calls # <<>>)
    => /\ outcome.body.response = Apology
       /\ "iterations" \in DOMAIN outcome.body
       /\ ExecutedIds = RequestedIds
       /\ AgentSpan.status = "OK"
       /\ ThisTrace.status = "OK"

\* The first response of the model is a message without tool calls.
FirstResponseWithoutToolCalls ==
    /\ pc = "done"
    /\ gateway_log # <<>>
    /\ gateway_log[1].response.kind = "ok"
    /\ gateway_log[1].response.tool_calls = <<>>

C8_SameToolInTwoResponses ==
    (/\ Answered
     /\ Len(gateway_log) = 2
     /\ Len(gateway_log[1].response.tool_calls) = 1
     /\ Len(gateway_log[2].response.tool_calls) = 1
     /\ gateway_log[1].response.tool_calls[1].name
            = gateway_log[2].response.tool_calls[1].name)
    => /\ Len(SpansOfType(ThisTrace, "TOOL")) = 2
       /\ ToolMessageIds = <<gateway_log[1].response.tool_calls[1].id,
                             gateway_log[2].response.tool_calls[1].id>>
       /\ ToolMessageIds[1] # ToolMessageIds[2]
       /\ ExecutedIds = ToolMessageIds

\* The conversation holds, somewhere, the assistant message of `message`
\* followed by one tool message per tool call of it, the i-th carrying the
\* i-th call's id and the serialized result recorded for that call.
Extended(message) ==
    \E p \in 1..Len(model_messages) :
        /\ model_messages[p] = assistant_msg(message)
        /\ Len(model_messages) >= p + Len(message.tool_calls)
        /\ \A i \in 1..Len(message.tool_calls) :
            /\ model_messages[p + i].role = "tool"
            /\ model_messages[p + i].tool_call_id = message.tool_calls[i].id
            /\ \E j \in 1..Len(tool_log) :
                /\ tool_log[j].id = message.tool_calls[i].id
                /\ j <= Len(executed_tools)
                /\ model_messages[p + i].content
                        = json_dumps(executed_tools[j].result)

\* C9 (as claimed): once agent_chat has answered, for every response that
\* carried tool calls the tools were executed in the calls' order and the
\* conversation was extended with the assistant message and one tool
\* message per call; no call was skipped, duplicated or reordered.
C9_EveryResponseExtendsConversation ==
    Answered =>
        /\ \A i \in 1..Len(gateway_log) :
                gateway_log[i].response.tool_calls # <<>>
                    => Extended(gateway_log[i].response)
        /\ ToolMessageIds = RequestedIds

\* A tool call that failed: its handler raised, or no tool has its name.
Failed(call) == call.raised \/ call.name \notin RegisteredTools

\* C10: a failed tool call is recorded as a tool result whose content
\* decodes to {success: false, error: <message>} under the call's id; the
\* request is aborted after tool calls only by a failing second model call;
\* by the second model call every tool call of the response was executed,
\* in order, and the conversation holds the tool messages of all of them;
\* and a request that executed tools ends only after a second model call.
C10_ToolFailureNeverAborts ==
    /\ \A i \in 1..Len(tool_results) :
            Failed(tool_log[i]) =>
                /\ tool_results[i].tool_use_id = tool_log[i].id
                /\ Decode(tool_results[i].content).success = FALSE
                /\ Decode(tool_results[i].content).error \notin {Absent, ""}
    /\ (tool_log # <<>> /\ exc # NoExc) =>
            /\ Len(gateway_log) = 2
            /\ final_response.kind # "ok"
    /\ Len(gateway_log) = 2 =>
            /\ ExecutedIds = [i \in 1..Len(response.tool_calls) |->
                                response.tool_calls[i].id]
            /\ ToolMessageIds = ExecutedIds
            /\ \A i \in 1..Len(ToolMessages) :
                    ToolMessages[i].content = tool_results[i].content
    /\ (pc = "done" /\ tool_log # <<>>) => Len(gateway_log) = 2

\* C10 witness: the handler of the first tool call raised and the second
\* call named an unknown tool; both were recorded as failures, the model
\* was called again and the caller got its answer.
C10_Witness ==
    /\ Answered
    /\ Len(tool_log) = 2
    /\ tool_log[1].raised
    /\ tool_log[2].name \notin RegisteredTools
    /\ Len(ToolMessages) = 2
    /\ Decode(ToolMessages[1].content).success = FALSE
    /\ Decode(ToolMessages[2].content).success = FALSE
    /\ Len(gateway_log) = 2

\* A Model Gateway call of the request failed: it raised, or its payload
\* had no usable choices.
GatewayFailed ==
    \E i \in 1..Len(gateway_log) : gateway_log[i].response.kind # "ok"

\* C11 (as claimed): no TOOL span is ever completed with status ERROR,
\* also when its handler raised; and an LLM or TOOL span of the request
\* has status ERROR only when a Model Gateway call failed.
C11_ToolSpansCompleteOK ==
    /\ \A i \in 1..Len(SpansOfType(ThisTrace, "TOOL")) :
            SpansOfType(ThisTrace, "TOOL")[i].status # "ERROR"
    /\ ThisTrace # NoTrace =>
            \A j \in 1..Len(ThisTrace.spans) :
                (/\ ThisTrace.spans[j].span_type # "AGENT"
                 /\ ThisTrace.spans[j].status = "ERROR") => GatewayFailed

\* C12 (as claimed): once a request whose Model Gateway call failed has
\* ended, the failed call was its last gateway call and no tool ran after
\* it, the LLM span of that call is ERROR, the AGENT span and the trace are
\* ERROR, and the caller got HTTP 500 with a message, not a response.
C12_GatewayFailureIsFatal ==
    (pc = "done" /\ GatewayFailed) =>
        LET n == Len(gateway_log)
            llm == SpansOfType(ThisTrace, "LLM")
        IN /\ \A i \in 1..(n - 1) : gateway_log[i].response.kind = "ok"
           /\ Len(tool_log) = Len(response.tool_calls)
           /\ Len(llm) = n
           /\ llm[n].status = "ERROR"
           /\ AgentSpan.status = "ERROR"
           /\ ThisTrace.status = "ERROR"
           /\ outcome.kind = "http_error"
           /\ outcome.body.status_code = 500
           /\ outcome.body.detail # <<>>

\* The request got past the token lookup without any credential.
NoCredential ==
    /\ db_token = ""
    /\ pc \notin {"idle", "create_trace", "agent_span", "token"}

\* C13: a request without credential makes no Model Gateway call and no
\* tool call; HTTP 401 is raised, and when the request has ended the
\* caller has got HTTP 401 with a message, and the AGENT span and the trace
\* are ERROR.
C13_NoCredentialFailsFirst ==
    NoCredential =>
        /\ gateway_log = <<>>
        /\ tool_log = <<>>
        /\ exc.type = "HTTPException"
        /\ exc.status_code = 401
        /\ pc = "done" =>
            /\ outcome.kind = "http_error"
            /\ outcome.body.status_code = 401
            /\ outcome.body.detail # <<>>
            /\ AgentSpan.status = "ERROR"
            /\ ThisTrace.status = "ERROR"

\* C13 witness: a request without credential has ended with HTTP 401 and
\* its trace is ERROR.
C13_Witness ==
    /\ NoCredential
    /\ pc = "done"
    /\ outcome.kind = "http_error"
    /\ outcome.body.status_code = 401
    /\ ThisTrace.status = "ERROR"
    /\ gateway_log = <<>>

\* The positions of the spans of a trace that have no parent.
Roots(trace) == {j \in 1..Len(trace.spans) : trace.spans[j].parent_id = None}

\* The LLM span opened last before position j of a trace (0 when none).
LlmBefore(trace, j) ==
    LET before == {i \in 1..(j - 1) : trace.spans[i].span_type = "LLM"}
    IN IF before = {} THEN 0
       ELSE CHOOSE i \in before : \A h \in before : h <= i

\* C14: in every stored trace that is OK or ERROR exactly one span has no
\* parent, and it is an AGENT span; every other span's parent is a span of
\* the same trace: the AGENT span for an LLM span, and for a TOOL span the
\* LLM span of the response that requested it (the one opened last before
\* the TOOL span).
C14_SpanTree ==
    \A n \in 1..Len(traces) :
        LET trace == traces[n]
        IN trace.status \in SpanStatuses =>
            /\ Cardinality(Roots(trace)) = 1
            /\ \A j \in Roots(trace) : trace.spans[j].span_type = "AGENT"
            /\ \A j \in 1..Len(trace.spans) :
                LET span == trace.spans[j]
                IN /\ j \notin Roots(trace) =>
                        span.parent_id \in SpanIdsOf(trace)
                   /\ span.span_type = "LLM" =>
                        \E r \in Roots(trace) :
                            span.parent_id = trace.spans[r].span_id
                   /\ span.span_type = "TOOL" =>
                        /\ LlmBefore(trace, j) # 0
                        /\ span.parent_id
                            = trace.spans[LlmBefore(trace, j)].span_id

\* C14 witness: the trace of an answered request with two TOOL spans and
\* two LLM spans.
C14_Witness ==
    /\ Answered
    /\ ThisTrace.status = "OK"
    /\ Len(SpansOfType(ThisTrace, "TOOL")) = 2
    /\ Len(SpansOfType(ThisTrace, "LLM")) = 2
    /\ Cardinality(Roots(ThisTrace)) = 1

\* The spans of a trace in creation order, each as its type and, for a
\* TOOL span, the tool's name.
Shape(trace) ==
    [j \in 1..Len(trace.spans) |->
        <<trace.spans[j].span_type,
          IF trace.spans[j].span_type = "TOOL" THEN trace.spans[j].name
          ELSE "">>]

\* One LLM span per gateway call, each followed by one TOOL span per tool
\* call of the call's response, in call order.
RECURSIVE Mirror(_)
Mirror(log) ==
    IF log = <<>> THEN <<>>
    ELSE LET calls == Head(log).response.tool_calls
         IN <<(<<"LLM", "">>)>>
            \o [i \in 1..Len(calls) |-> <<"TOOL", calls[i].name>>]
            \o Mirror(Tail(log))

\* C15 (as claimed): when a request has been answered, the spans of its
\* trace are the AGENT span and then, per Model Gateway call, an LLM span
\* and one TOOL span per tool call of the call's response; there are as
\* many LLM spans as gateway calls and TOOL spans as tool calls executed.
C15_TraceMirrorsControlFlow ==
    Answered =>
        /\ Shape(ThisTrace) = <<(<<"AGENT", "">>)>> \o Mirror(gateway_log)
        /\ Len(SpansOfType(ThisTrace, "LLM")) = Len(gateway_log)
        /\ Len(SpansOfType(ThisTrace, "TOOL")) = Len(tool_log)

\* What the caller of a request that has ended holds: a response with the
\* request's trace id, or an HTTP error status with a message.
Explicit ==
    \/ /\ outcome.kind = "response"
       /\ outcome.body.trace_id = agent_trace_id
       /\ agent_trace_id # None
    \/ /\ outcome.kind = "http_error"
       /\ outcome.body.status_code \in 400..599
       /\ outcome.body.detail # <<>>

\* C16: every chat request that has arrived ends; a request makes at most
\* two Model Gateway calls whatever the model answers; and a request that
\* has ended has given its caller a response with the request's trace id
\* or an HTTP error status with a message.
C16_RequestEnds ==
    /\ (pc # "idle") ~> (pc = "done")
    /\ [](Len(gateway_log) <= 2)
    /\ [](pc = "done" => Explicit)
    /\ [](outcome.kind # "none" => pc = "done")

\* C16 witness: a request whose two responses both asked for tools has
\* ended after two gateway calls with a response.
C16_Witness ==
    /\ pc = "done"
    /\ Len(gateway_log) = 2
    /\ gateway_log[2].response.tool_calls # <<>>
    /\ outcome.kind = "response"
    /\ outcome.body.trace_id = agent_trace_id

\* The ids add_span has returned to the request for the spans it holds.
OpenedSpanIds ==
    {agent_span_id, llm_span_id, tool_span_id, final_llm_span_id} \ {None}

\* The span ids of a trace in the order of its span list.
SpanIdSeq(trace) == [j \in 1..Len(trace.spans) |-> trace.spans[j].span_id]

C18_ListTracesNewestFirst ==
    LET all == list_traces(traces, Len(traces), 0)
    IN /\ Len(all) = Len(traces)
       /\ Range(all) = Range(traces)
       /\ \A i, j \in 1..Len(all) :
            i < j => all[i].timestamp_ms > all[j].timestamp_ms
       /\ \A limit \in 0..(Len(traces) + 1), offset \in 0..(Len(traces) + 1) :
            LET page == list_traces(traces, limit, offset)
            IN /\ Len(page) <= limit
               /\ \A i \in 1..Len(page) : page[i] = all[offset + i]
               /\ Len(page) < limit => offset + Len(page) >= Len(all)

\* The message list of the i-th Model Gateway call of the request.
Sent(i) == gateway_log[i].messages

\* C19 (as claimed): in every message list sent to the Model Gateway each
\* tool message carries a tool_call_id, the id of a tool call of an
\* assistant message before it in the list.
C19_ToolMessagesAnswerToolCalls ==
    \A i \in 1..Len(gateway_log) :
        \A q \in 1..Len(Sent(i)) :
            Sent(i)[q].role = "tool" =>
                /\ Sent(i)[q].tool_call_id # None
                /\ \E p \in 1..(q - 1) :
                    /\ Sent(i)[p].role = "assistant"
                    /\ \E c \in 1..Len(Sent(i)[p].tool_calls) :
                        Sent(i)[p].tool_calls[c].id = Sent(i)[q].tool_call_id

\* `long` is `short` with messages appended.
Extends(long, short) ==
    /\ Len(long) >= Len(short)
    /\ SubSeq(long, 1, Len(short)) = short

\* C20: the message list of the first Model Gateway call is the system
\* message followed by the caller's messages (role and content) in their
\* order; the list of the second call is the list of the first one
\* followed by the assistant message with the tool calls of the first
\* response and one tool message per tool call of it, in call order; and
\* the conversation only ever extends the list sent last.
C20_ConversationIsAppendOnly ==
    /\ gateway_log # <<>> =>
        LET msgs == chat_request.messages
        IN /\ Len(Sent(1)) = 1 + Len(msgs)
           /\ Sent(1)[1] = system_message
           /\ \A j \in 1..Len(msgs) :
                /\ Sent(1)[1 + j].role = msgs[j].role
                /\ Sent(1)[1 + j].content = msgs[j].content
           /\ Extends(model_messages, Sent(Len(gateway_log)))
    /\ Len(gateway_log) >= 2 =>
        LET calls == gateway_log[1].response.tool_calls
            n == Len(Sent(1))
        IN /\ Extends(Sent(2), Sent(1))
           /\ Len(Sent(2)) = n + 1 + Len(calls)
           /\ Sent(2)[n + 1].role = "assistant"
           /\ Sent(2)[n + 1].tool_calls = calls
           /\ \A c \in 1..Len(calls) :
                /\ Sent(2)[n + 1 + c].role = "tool"
                /\ Sent(2)[n + 1 + c].tool_call_id = calls[c].id

\* C20 witness: a caller sent four messages, the first response asked for
\* two tools, and the second gateway call got all eight messages.
C20_Witness ==
    /\ Len(gateway_log) = 2
    /\ Len(chat_request.messages) = 4
    /\ Len(gateway_log[1].response.tool_calls) = 2
    /\ Len(Sent(1)) = 5
    /\ Len(Sent(2)) = 8

\* The positions of the LLM and TOOL spans of a trace that are RUNNING.
RunningCalls(trace) ==
    IF trace = NoTrace THEN {}
    ELSE {j \in 1..Len(trace.spans) :
            /\ trace.spans[j].span_type \in {"LLM", "TOOL"}
            /\ trace.spans[j].status = "RUNNING"}

\* C21: at most one LLM or TOOL span of the request's trace is RUNNING at
\* any moment; while a tool call is dispatched the model call of its
\* response has returned and only the TOOL span of that call is RUNNING;
\* and while a model call is made every tool call of the response before
\* it has finished and only the LLM span of that model call is RUNNING.
C21_CallsAreSequential ==
    /\ Cardinality(RunningCalls(ThisTrace)) <= 1
    /\ pc = "exec_tool" =>
        /\ Len(gateway_log) = 1
        /\ Len(tool_log) = tool_index - 1
        /\ \A j \in RunningCalls(ThisTrace) :
            ThisTrace.spans[j].span_id = tool_span_id
    /\ pc = "call_model" =>
        /\ tool_log = <<>>
        /\ \A j \in RunningCalls(ThisTrace) :
            ThisTrace.spans[j].span_id = llm_span_id
    /\ pc = "call_final" =>
        /\ Len(tool_log) = Len(response.tool_calls)
        /\ Len(tool_results) = Len(response.tool_calls)
        /\ \A j \in RunningCalls(ThisTrace) :
            ThisTrace.spans[j].span_id = final_llm_span_id

\* C21 witness: the second tool call of a response is being dispatched;
\* the LLM span and the first TOOL span are completed, the second TOOL
\* span alone is RUNNING.
C21_Witness ==
    /\ pc = "exec_tool"
    /\ tool_index = 2
    /\ Cardinality(RunningCalls(ThisTrace)) = 1
    /\ Len(SpansOfType(ThisTrace, "TOOL")) = 2
    /\ SpansOfType(ThisTrace, "TOOL")[1].status \in SpanStatuses
    /\ SpansOfType(ThisTrace, "LLM")[1].status = "OK"

\* C22 (as claimed): whatever arguments the model supplied and whatever
\* the backend did, the call of a registered tool handler has not raised
\* into agent_chat: it has returned a result with a boolean success and,
\* when success is false, an error text.
C22_HandlersReturnStructuredResults ==
    (pc = "tool_done" /\ Last(tool_log).name \in RegisteredTools) =>
        /\ ~result.raised
        /\ result.value.success \in BOOLEAN
        /\ ~result.value.success => result.value.error \notin {Absent, ""}

\* The assistant message agent_chat has appended to the conversation.
AssistantMessage == Appended[1]

\* C23: the assistant message appended after a response with tool calls
\* carries the tool calls of that response; it has the response's text as
\* content when that text is not empty, and no content field when the
\* text is absent (None) or empty.
C23_AssistantMessageContent ==
    Appended # <<>> =>
        /\ AssistantMessage.role = "assistant"
        /\ AssistantMessage.tool_calls = response.tool_calls
        /\ response.tool_calls # <<>>
        /\ response.content \in {"None", ""}
                => AssistantMessage.content = Absent
        /\ response.content \notin {"None", ""}
                => AssistantMessage.content = response.content

\* C23 witness: the model returned tool calls with the empty text, and the
\* assistant message sent on the second gateway call has no content.
C23_Witness ==
    /\ Len(gateway_log) = 2
    /\ response.content = ""
    /\ response.tool_calls # <<>>
    /\ Sent(2)[gateway_log[1].n_messages + 1].content = Absent
    /\ Sent(2)[gateway_log[1].n_messages + 1].tool_calls = response.tool_calls

\* The tool calls dispatched so far whose arguments text was no JSON.
Undecodable ==
    {i \in 1..Len(tool_log) : JSONDecodeError(response.tool_calls[i].arguments)}

\* C24: a tool call whose arguments text is not valid JSON is dispatched
\* with empty arguments under its own TOOL span, named after the tool; its
\* result is appended as a tool result and sent as a tool message under
\* the call's id on the second model call, which follows whenever tools
\* ran: the request is not aborted.
C24_UndecodableArgumentsAreEmpty ==
    /\ \A i \in Undecodable :
        /\ tool_log[i].args = {}
        /\ tool_log[i].name = response.tool_calls[i].name
        /\ Len(SpansOfType(ThisTrace, "TOOL")) >= i
        /\ SpansOfType(ThisTrace, "TOOL")[i].name = tool_log[i].name
        /\ i <= Len(tool_results) =>
                tool_results[i].tool_use_id = response.tool_calls[i].id
        /\ Len(gateway_log) = 2 =>
                /\ Len(ToolMessages) >= i
                /\ ToolMessages[i].tool_call_id = response.tool_calls[i].id
    /\ (Undecodable # {} /\ pc \in {"except", "except_trace", "raise", "done"})
            => Len(gateway_log) = 2

\* C24 witness: list_tables was asked for with arguments that are no JSON,
\* ran without arguments and succeeded, and the request was answered.
C24_Witness ==
    /\ Answered
    /\ Undecodable = {1}
    /\ tool_log[1].name = "list_tables"
    /\ tool_log[1].args = {}
    /\ ~tool_log[1].raised
    /\ Decode(ToolMessages[1].content).success = TRUE


\* ------------------------------------------ DataverseAuth, call by call
\* The delays between two calls: a second, the buffer, and what is left
\* of the default lifetime after the buffer.
Delays == {1, ExpiryBuffer, DefaultExpiresIn - ExpiryBuffer}

\* A caller asks the DataverseAuth instance for a token.
GetAccessToken ==
    \E force_refresh \in BOOLEAN, reply \in TokenReplies :
        LET self == TokenCache(access_token, token_expires_at)
            r == get_access_token(self, force_refresh, clock, reply)
            got == r.posted /\ reply.ok
        IN /\ auth_ops < MaxAuthOps
           /\ access_token' = r.self.access_token
           /\ token_expires_at' = r.self.token_expires_at
           /\ token_expiry' =
                 IF got
                 THEN clock + (IF reply.expires_in = None THEN DefaultExpiresIn
                               ELSE reply.expires_in)
                 ELSE token_expiry
           /\ auth_call' =
                 [made |-> TRUE, force_refresh |-> force_refresh,
                  current_time |-> clock, before |-> self,
                  expiry_before |-> token_expiry,
                  reply |-> IF r.posted THEN reply ELSE NoReply,
                  posted |-> r.posted, raised |-> r.raised, e |-> r.e,
                  ret |-> r.ret]
           /\ auth_ops' = auth_ops + 1
           /\ UNCHANGED clock
           /\ UNCHANGED <<storeVars, agentVars>>

\* Time passes between two calls.
Elapse ==
    \E d \in Delays :
        /\ auth_ops < MaxAuthOps
        /\ clock' = clock + d
        /\ auth_ops' = auth_ops + 1
        /\ UNCHANGED <<access_token, token_expires_at, token_expiry, auth_call>>
        /\ UNCHANGED <<storeVars, agentVars>>

NextAuth ==
    \/ GetAccessToken
    \/ Elapse

SpecAuth == Init /\ [][NextAuth]_vars

\* A token was obtained earlier and the time of the last call was before
\* that token's expiry minus the buffer.
CachedTokenValid ==
    /\ auth_call.before.access_token \in Tokens
    /\ auth_call.current_time < auth_call.expiry_before - ExpiryBuffer

\* C25: a get_access_token call without force_refresh, made when a token
\* was obtained earlier and the time is before its expiry minus the
\* 5-minute buffer, returns the cached token without contacting the token
\* endpoint; any other call contacts it, and returns and caches the new
\* token with its expiry minus the buffer, or, when the request fails,
\* raises RuntimeError and leaves the cached token and its expiry time
\* as they were.
C25_TokenIsCachedUntilBuffer ==
    auth_call.made =>
        LET now_cache == TokenCache(access_token, token_expires_at)
        IN IF ~auth_call.force_refresh /\ CachedTokenValid
           THEN /\ ~auth_call.posted
                /\ ~auth_call.raised
                /\ auth_call.ret = auth_call.before.access_token
                /\ now_cache = auth_call.before
           ELSE /\ auth_call.posted
                /\ IF auth_call.reply.ok
                   THEN /\ ~auth_call.raised
                        /\ auth_call.ret = auth_call.reply.access_token
                        /\ access_token = auth_call.reply.access_token
                        /\ token_expires_at = token_expiry - ExpiryBuffer
                   ELSE /\ auth_call.raised
                        /\ auth_call.e = RuntimeError
                        /\ now_cache = auth_call.before

\* A forced refresh failed while a token was cached and still valid.
C25_Witness ==
    /\ auth_call.made
    /\ auth_call.force_refresh
    /\ CachedTokenValid
    /\ auth_call.raised
    /\ access_token = auth_call.before.access_token
    /\ access_token \in Tokens

\* The positions of the spans of a trace that are RUNNING.
RunningSpans(trace) ==
    IF trace = NoTrace THEN {}
    ELSE {j \in 1..Len(trace.spans) : trace.spans[j].status = "RUNNING"}

\* The AGENT span of the request's trace has been completed.
AgentSpanCompleted ==
    /\ SpansOfType(ThisTrace, "AGENT") # <<>>
    /\ AgentSpan.status # "RUNNING"

\* C26: when complete_trace is called for the request's trace, and when the
\* request has finished with a response or with an error, no span of its
\* trace is RUNNING; and the AGENT span is the last span completed: once it
\* is completed no other span is RUNNING and no span of the trace changes.
C26_NoSpanLeftRunning ==
    [][/\ pc \in {"trace_done", "except_trace"} => RunningSpans(ThisTrace) = {}
       /\ pc' = "done" => RunningSpans(ThisTrace)' = {}
       /\ AgentSpanCompleted =>
            /\ RunningSpans(ThisTrace) = {}
            /\ ThisTrace'.spans = ThisTrace.spans]_vars

\* C26 witness: the request has ended with an HTTP error after the final
\* model call failed; the trace holds the AGENT span, two LLM spans and a
\* TOOL span, none of them RUNNING.
C26_Witness ==
    /\ pc = "done"
    /\ outcome.kind = "http_error"
    /\ Len(SpansOfType(ThisTrace, "LLM")) = 2
    /\ Len(SpansOfType(ThisTrace, "TOOL")) >= 1
    /\ SpansOfType(ThisTrace, "LLM")[2].status = "ERROR"
    /\ AgentSpan.status = "ERROR"
    /\ RunningSpans(ThisTrace) = {}

\* The span of a trace with the given id (the first one, as complete_span
\* finds it).
SpanOf(trace, span_id) ==
    trace.spans[FirstMatch(trace.spans, span_id)]

\* C27: span lifetimes nest like the span tree: whenever a span of the
\* request's trace is RUNNING (from the moment it is opened until it is
\* completed), the span its parent_id names is RUNNING too.
C27_ChildRunsWithinParent ==
    \A j \in RunningSpans(ThisTrace) :
        LET span == ThisTrace.spans[j]
        IN span.parent_id # None =>
            /\ span.parent_id \in SpanIdsOf(ThisTrace)
            /\ SpanOf(ThisTrace, span.parent_id).status = "RUNNING"

\* C28: when the request has finished and its trace is stored, the trace
\* has status OK exactly when a response was returned and ERROR exactly
\* when an HTTP error was raised, and the AGENT span has the status of the
\* trace; a trace with status IN_PROGRESS belongs to a request in flight.
C28_TraceStatusIsOutcome ==
    ThisTrace # NoTrace =>
        /\ pc = "done" =>
            /\ ThisTrace.status = "OK" <=> outcome.kind = "response"
            /\ ThisTrace.status = "ERROR" <=> outcome.kind = "http_error"
            /\ ThisTrace.status \in {"OK", "ERROR"}
            /\ AgentSpan.status = ThisTrace.status
        /\ ThisTrace.status = "IN_PROGRESS" => pc # "done"

\* C28 witness: the request finished with an HTTP error after its tools
\* were executed; the trace and its AGENT span have status ERROR.
C28_Witness ==
    /\ pc = "done"
    /\ outcome.kind = "http_error"
    /\ tool_log # <<>>
    /\ ThisTrace.status = "ERROR"
    /\ AgentSpan.status = "ERROR"

\* One sequence starts with the other.
IsPrefix(short, long) ==
    /\ Len(short) <= Len(long)
    /\ \A j \in 1..Len(short) : long[j] = short[j]

\* C29: the span list of a stored trace is append-only: whatever call is
\* made, create_trace with any request id included, a trace that is stored
\* before and after the call has after it the spans it had before, in the
\* same order and at the front of its span list.
C29_SpansAreAppendOnly ==
    [][\A i \in 1..Len(traces) :
         LET after == get_trace(traces', traces[i].trace_id)
         IN after # NoTrace =>
              IsPrefix(SpanIdSeq(traces[i]), SpanIdSeq(after))]_vars

\* A call addressed to trace_id left the stored ids, their order and every
\* other trace as they are in the store.
OthersUntouched(after, trace_id) ==
    /\ Keys(after) = Keys(traces)
    /\ \A i \in 1..Len(traces) :
        traces[i].trace_id # trace_id => after[i] = traces[i]

\* The trace at position i differs from the stored one in its spans only.
OnlySpansDiffer(after, i) ==
    [after[i] EXCEPT !.spans = traces[i].spans] = traces[i]

\* C30: add_span, complete_span and complete_trace addressed to a trace
\* leave every other trace, the stored ids and their order unchanged;
\* add_span changes nothing of that trace but appends to its spans;
\* complete_span changes nothing but the one span with the given id;
\* complete_trace changes no span; so of the calls that write, only
\* create_trace adds or evicts a trace.
C30_CallsChangeOnlyTheirTarget ==
    \A trace_id \in TraceIds \cup {EmptyId}, span_id \in SpanIds,
          status \in SpanStatuses :
          LET added == add_span(traces, trace_id, "TOOL", "name", "None",
                                None, uuids + 1, now).traces
              completed == complete_span(traces, trace_id, span_id, "out",
                                         status, now).traces
              closed == complete_trace(traces, trace_id, status, now).traces
          IN /\ OthersUntouched(added, trace_id)
             /\ OthersUntouched(completed, trace_id)
             /\ OthersUntouched(closed, trace_id)
             /\ \A i \in 1..Len(traces) :
                 /\ OnlySpansDiffer(added, i)
                 /\ IsPrefix(traces[i].spans, added[i].spans)
                 /\ OnlySpansDiffer(completed, i)
                 /\ Len(completed[i].spans) = Len(traces[i].spans)
                 /\ \A j \in 1..Len(traces[i].spans) :
                     traces[i].spans[j].span_id # span_id =>
                         completed[i].spans[j] = traces[i].spans[j]
                 /\ closed[i].spans = traces[i].spans

\* C30 witness: two traces are stored, the older one with a completed span
\* and a completed status, the newer one untouched.
C30_Witness ==
    /\ Len(traces) = 2
    /\ Len(traces[1].spans) = 1
    /\ traces[1].spans[1].status \in SpanStatuses
    /\ traces[1].status \in SpanStatuses
    /\ traces[2].spans = <<>>
    /\ traces[2].status = "IN_PROGRESS"
=============================================================================
